---- MODULE Spec2Model ----
(***************************************************************************)
(* A model of the shunt supervisor (src/src/guts.rs): go() registers the   *)
(* signal iterator, launches every configured command with start_command, *)
(* spawns the signal relay thread, then runs one handle_wait and one       *)
(* handle_output thread per launched command inside a thread scope.        *)
(* Commands are named 1..n in the order the configuration map is iterated. *)
(* The supervisor's stdout is kept as its projection on each command and   *)
(* the sequence of signal receipts. A transport is a bounded buffer of the *)
(* chunks a child wrote; read_fds follows who holds its read end open.     *)
(***************************************************************************)
EXTENDS Integers, Sequences, FiniteSets, TLC

\* ------------------------------------------------------------- bounds
MaxCmds == 2          \* commands of an ordinary run
MaxChunks == 4        \* writes the children of one run make in all
MaxSignals == 1       \* signals delivered to the supervisor in one run
Capacity == 2         \* chunks the buffer of a transport holds

\* ------------------------------------------------- program constants
NumColors == 5        \* length of the colors array of pick_color

AutoBool == {"Auto", "Always", "Never"}

\* argv of a command: empty, an executable that exists, one that does not.
Argvs == {<<>>, <<"true">>, <<"missing">>}
Executables == {"true"}
ExitStatuses == {"exit0", "sigterm"}
SignalNames == {"SIGTERM", "SIGINT"}

\* What one write of a child is: a complete valid line, a complete line
\* that is not valid UTF-8, or a valid chunk without a line terminator.
ChunkKinds == {"line", "bad", "part"}

NoChunk == [kind |-> "none", seq |-> 0]

\* Environment variables: names and values.
EnvKeys == {"A", "B", "C"}
EnvValues == {"x", "y"}

\* An environment maps some names to values.
Environs == UNION {[S -> EnvValues] : S \in SUBSET EnvKeys}
NoEnv == [k \in {} |-> "x"]

\* cmd_config.env maps some names to an Option<String>: <<>> is None and
\* <<v>> is Some(v).
OptionValues == {<<>>} \cup {<<v>> : v \in EnvValues}
OverrideMaps == UNION {[S -> OptionValues] : S \in SUBSET EnvKeys}

VARIABLES
    pc,            \* where go() is
    result,        \* what go() returned: "none", "Ok", "Err"
    config,        \* config.commands, as a sequence of descriptors
    environ,       \* the environment the supervisor runs in
    is_tty,        \* isatty(our stdout)
    handles,       \* handles[c]: the Result<Handle> of start_command
    COLOR_CYCLE,   \* the static counter of pick_color
    child,         \* child[c]: the OS process of command c
    transport,     \* transport[c]: chunks written and not yet read
    read_fds,      \* read_fds[c]: who holds an open descriptor of the read end
    cmd_stdout,    \* cmd_stdout[c]: the child's own stdout pipe, where it has one
    fds,           \* fds[c]: the two descriptors start_command allocated
    emitted,       \* emitted[c]: every chunk the child wrote, in order
    out_pc,        \* out_pc[c]: where the handle_output thread is
    acc,           \* acc[c]: the unterminated chunk read_line has buffered
    cur,           \* cur[c]: the line handle_output is writing
    wait_pc,       \* wait_pc[c]: where the handle_wait thread is
    console,       \* console[c]: what stdout shows about command c, in order
    receipts,      \* the signal receipts stdout shows, in order
    errlog,        \* what was written to the supervisor's stderr
    lock,          \* the holder of the stdout lock, 0 if free
    relay,         \* the signal thread: "none", "running", "closed"
    pending,       \* signals delivered and not yet taken by the iterator
    nsig           \* signals delivered so far

vars == <<pc, result, config, environ, is_tty, handles, COLOR_CYCLE, child,
          transport, read_fds, cmd_stdout, fds, emitted, out_pc, acc, cur, wait_pc, console, receipts,
          errlog, lock, relay, pending, nsig>>

Cmds == DOMAIN config

\* ------------------------------------------------------ configuration
Descriptor == [argv : Argvs, tty : AutoBool, env : {NoEnv}]

\* A configuration of one command in the full form {argv, tty}.
FullConfigs == [1..1 -> Descriptor]

\* Configurations of commands in the short form, a bare argv: the tty mode
\* is the default, Auto.
ShortDescriptor == [argv : Argvs, tty : {"Auto"}, env : {NoEnv}]
ShortConfigs == UNION {[1..n -> ShortDescriptor] : n \in 1..MaxCmds}

Spawnable(argv) == Len(argv) > 0 /\ argv[1] \in Executables

\* Short-form configurations with more spawnable commands than pick_color
\* has colours.
OverflowConfigs ==
    {cfg \in UNION {[1..n -> ShortDescriptor] :
                        n \in (NumColors + 1)..(NumColors + 2)} :
        Cardinality({c \in DOMAIN cfg : Spawnable(cfg[c].argv)}) > NumColors}

NoHandle == [tag |-> "none", err |-> "none", pty |-> FALSE, color |-> 0]
NoChild == [state |-> "none", status |-> "none", env |-> NoEnv]

\* No stdout pipe: the child's stdout is the write end of the transport.
NoPipe == [fd |-> "none", written |-> 0, refused |-> FALSE]

\* A descriptor number: the objects that own it now, how many owning objects
\* were made over it, and how many times it was closed.
NoDescriptor == [owners |-> {}, wrapped |-> 0, closes |-> 0]
NoDescriptors == [read_end |-> NoDescriptor, write_end |-> NoDescriptor]

Init ==
    /\ pc = "start"
    /\ result = "none"
    /\ \/ is_tty \in BOOLEAN /\ config \in FullConfigs \cup ShortConfigs
       \/ is_tty = TRUE /\ config \in OverflowConfigs
    /\ environ = NoEnv
    /\ handles = [c \in Cmds |-> NoHandle]
    /\ COLOR_CYCLE = 0
    /\ child = [c \in Cmds |-> NoChild]
    /\ transport = [c \in Cmds |-> <<>>]
    /\ read_fds = [c \in Cmds |-> {}]
    /\ cmd_stdout = [c \in Cmds |-> NoPipe]
    /\ fds = [c \in Cmds |-> NoDescriptors]
    /\ emitted = [c \in Cmds |-> <<>>]
    /\ out_pc = [c \in Cmds |-> "none"]
    /\ acc = [c \in Cmds |-> NoChunk]
    /\ cur = [c \in Cmds |-> NoChunk]
    /\ wait_pc = [c \in Cmds |-> "none"]
    /\ console = [c \in Cmds |-> <<>>]
    /\ receipts = <<>>
    /\ errlog = <<>>
    /\ lock = 0
    /\ relay = "none"
    /\ pending = {}
    /\ nsig = 0

\* ------------------------------------------------------------- go()
\* Signals::new([SIGTERM, SIGINT]) succeeded.
RegisterOk ==
    /\ pc' = "launch"
    /\ UNCHANGED result

\* Mutant of RegisterErr: the error is noted and go() carries on.
RegisterErrIgnored ==
    /\ pc' = "launch"
    /\ result' = "Err"

\* Signals::new failed: the ? operator returns the error from go().
RegisterErr ==
    /\ pc' = "returned"
    /\ result' = "Err"

GoRegister ==
    /\ pc = "start"
    /\ RegisterOk \/ RegisterErr
    /\ UNCHANGED <<config, environ, fds, cmd_stdout, is_tty, handles, COLOR_CYCLE, child, transport, read_fds,
                   emitted, out_pc, acc, cur, wait_pc, console, receipts,
                   errlog, lock, relay, pending, nsig>>

\* ------------------------------------------- the child's environment
\* env_updates of start_command: the entries of cmd_config.env with a value.
env_updates(env) ==
    [k \in {j \in DOMAIN env : env[j] # <<>>} |-> env[k][1]]

\* removed_env of start_command: the keys of cmd_config.env without a value.
removed_env(env) == {k \in DOMAIN env : env[k] = <<>>}

\* Command::envs: every entry is recorded in the command as a variable to
\* set, over what the command has recorded for that name.
envs(cmd_vars, updates) ==
    [k \in DOMAIN cmd_vars \cup DOMAIN updates |->
        IF k \in DOMAIN updates THEN <<updates[k]>> ELSE cmd_vars[k]]

\* Mutant of env_remove: the removal is not recorded.
env_remove_Forgotten(cmd_vars, k) == cmd_vars

\* Command::env_remove: the name is recorded as a variable to remove.
env_remove(cmd_vars, k) ==
    [j \in DOMAIN cmd_vars \cup {k} |-> IF j = k THEN <<>> ELSE cmd_vars[j]]

\* for k in removed_env { cmd.env_remove(k) }
RECURSIVE RemoveAll(_, _)
RemoveAll(cmd_vars, ks) ==
    IF ks = {} THEN cmd_vars
    ELSE LET k == CHOOSE j \in ks : TRUE
         IN  RemoveAll(env_remove(cmd_vars, k), ks \ {k})

\* What spawn gives the child: the environment of the supervisor, then
\* every name the command recorded is set or removed.
capture(inherited, cmd_vars) ==
    [k \in {j \in DOMAIN inherited \cup DOMAIN cmd_vars :
               j \in DOMAIN cmd_vars => cmd_vars[j] # <<>>} |->
        IF k \in DOMAIN cmd_vars THEN cmd_vars[k][1] ELSE inherited[k]]

\* The environment of the child start_command spawns.
child_env(inherited, env) ==
    capture(inherited, RemoveAll(envs(NoEnv, env_updates(env)), removed_env(env)))

\* Mutant of wrap_tty: Auto never wraps, whatever our stdout is.
wrap_tty_OnlyAlways(mode) == mode = "Always"

\* wrap_tty of start_command.
wrap_tty(mode) ==
    CASE mode = "Auto" -> is_tty
      [] mode = "Always" -> TRUE
      [] mode = "Never" -> FALSE

\* pick_color: fetch_add on COLOR_CYCLE, then colors[i]; an index past the
\* array panics.
pick_color(i) ==
    [panic |-> ~(i < NumColors), color |-> IF i < NumColors THEN i + 1 ELSE 0]

\* Mutant of start_command: the colour is picked when the child is wrapped
\* in a pseudo-terminal instead of when our stdout is a terminal.
start_command_ColorByPty(d, counter) ==
    LET pty == wrap_tty(d.tty)
        picked == pick_color(counter)
    IN  IF Len(d.argv) = 0
        THEN [handle |-> [tag |-> "Err", err |-> "empty", pty |-> pty, color |-> 0],
              spawned |-> FALSE, counter |-> counter, panic |-> FALSE]
        ELSE IF ~Spawnable(d.argv)
        THEN [handle |-> [tag |-> "Err", err |-> "spawn", pty |-> pty, color |-> 0],
              spawned |-> FALSE, counter |-> counter, panic |-> FALSE]
        ELSE IF pty
        THEN [handle |-> IF picked.panic THEN NoHandle
                         ELSE [tag |-> "Ok", err |-> "none", pty |-> pty,
                               color |-> picked.color],
              spawned |-> TRUE, counter |-> counter + 1, panic |-> picked.panic]
        ELSE [handle |-> [tag |-> "Ok", err |-> "none", pty |-> pty, color |-> 0],
              spawned |-> TRUE, counter |-> counter, panic |-> FALSE]

\* start_command(name, cmd_config) with COLOR_CYCLE at counter: the
\* Result<Handle>, whether a child was spawned, the counter afterwards and
\* whether the call panicked.
start_command(d, counter) ==
    LET pty == wrap_tty(d.tty)
        picked == pick_color(counter)
    IN  IF Len(d.argv) = 0
        THEN [handle |-> [tag |-> "Err", err |-> "empty", pty |-> pty, color |-> 0],
              spawned |-> FALSE, counter |-> counter, panic |-> FALSE]
        ELSE IF ~Spawnable(d.argv)
        THEN [handle |-> [tag |-> "Err", err |-> "spawn", pty |-> pty, color |-> 0],
              spawned |-> FALSE, counter |-> counter, panic |-> FALSE]
        ELSE IF is_tty
        THEN [handle |-> IF picked.panic THEN NoHandle
                         ELSE [tag |-> "Ok", err |-> "none", pty |-> pty,
                               color |-> picked.color],
              spawned |-> TRUE, counter |-> counter + 1, panic |-> picked.panic]
        ELSE [handle |-> [tag |-> "Ok", err |-> "none", pty |-> pty, color |-> 0],
              spawned |-> TRUE, counter |-> counter, panic |-> FALSE]

\* File::from_raw_fd, Stdio::from_raw_fd: one more object owns the number.
from_raw_fd(f, owner) ==
    [f EXCEPT !.owners = @ \cup {owner}, !.wrapped = @ + 1]

\* The drop of an owning object: close() on the number it holds.
drop(f, owner) ==
    IF owner \in f.owners
    THEN [f EXCEPT !.owners = @ \ {owner}, !.closes = @ + 1]
    ELSE f

\* The two descriptors when start_command is over. read_end goes into tty,
\* write_end into both stdout and stderr. On every path the Command, or the
\* locals stdout and stderr where no Command was built, is dropped at the
\* end of the call; tty is dropped with it unless it was moved into the
\* Handle that is returned.
start_command_fds(moved) ==
    LET tty == from_raw_fd(NoDescriptor, "tty")
        stdio == from_raw_fd(from_raw_fd(NoDescriptor, "stdout"), "stderr")
    IN  [read_end |-> IF moved THEN tty ELSE drop(tty, "tty"),
         write_end |-> drop(drop(stdio, "stdout"), "stderr")]

\* config.commands.iter().map(start_command).collect() from command c on:
\* the calls are made in order and a panic ends the iteration.
RECURSIVE LaunchFrom(_, _)
LaunchFrom(c, st) ==
    IF c \notin Cmds \/ st.panic
    THEN st
    ELSE LET r == start_command(config[c], st.counter)
         IN  LaunchFrom(c + 1,
                 [handles |-> [st.handles EXCEPT ![c] = r.handle],
                  called |-> st.called \cup {c},
                  spawned |-> IF r.spawned THEN st.spawned \cup {c} ELSE st.spawned,
                  counter |-> r.counter,
                  panic |-> r.panic])

\* The launch of every command: the children run from here on.
Launch ==
    /\ pc = "launch"
    /\ LET st == LaunchFrom(1, [handles |-> handles, spawned |-> {}, called |-> {},
                                counter |-> COLOR_CYCLE, panic |-> FALSE])
       IN  /\ handles' = st.handles
           /\ COLOR_CYCLE' = st.counter
           /\ child' = [c \in Cmds |-> IF c \in st.spawned
                                       THEN [state |-> "running", status |-> "none",
                                             env |-> child_env(environ, config[c].env)]
                                       ELSE child[c]]
           /\ read_fds' = [c \in Cmds |->
                              IF st.handles[c].tag = "Ok" /\ ~st.panic
                              THEN {"handle"} ELSE {}]
           /\ fds' = [c \in Cmds |->
                         IF c \in st.called
                         THEN start_command_fds(st.handles[c].tag = "Ok"
                                                /\ ~st.panic)
                         ELSE fds[c]]
           /\ pc' = IF st.panic THEN "panicked" ELSE "scope"
    /\ UNCHANGED <<result, config, environ, cmd_stdout, is_tty, transport, emitted, out_pc, acc,
                   cur, wait_pc, console, receipts, errlog, lock, relay,
                   pending, nsig>>

\* The errors eprintln! prints in the scope's loop, in order.
RECURSIVE LaunchErrors(_)
LaunchErrors(c) ==
    IF c \notin Cmds THEN <<>>
    ELSE IF handles[c].tag = "Err"
         THEN <<(<<"error", c, handles[c].err>>)>> \o LaunchErrors(c + 1)
         ELSE LaunchErrors(c + 1)

\* std::thread::spawn of the signal loop, then the loop of the scope: one
\* handle_wait and one handle_output thread per Ok handle, the error printed
\* for an Err.
SpawnThreads ==
    /\ pc = "scope"
    /\ relay' = "running"
    /\ wait_pc' = [c \in Cmds |-> IF handles[c].tag = "Ok" THEN "wait" ELSE "none"]
    /\ out_pc' = [c \in Cmds |-> IF handles[c].tag = "Ok" THEN "read" ELSE "none"]
    /\ read_fds' = [c \in Cmds |-> IF handles[c].tag = "Ok"
                                     THEN read_fds[c] \cup {"output"}
                                     ELSE read_fds[c]]
    /\ errlog' = errlog \o LaunchErrors(1)
    /\ pc' = "join"
    /\ UNCHANGED <<result, config, environ, fds, cmd_stdout, is_tty, handles, COLOR_CYCLE, child,
                   transport, emitted, acc, cur, console, receipts,
                   lock, pending, nsig>>

\* Mutant of AllTasksDone: the threads are detached, nothing is joined.
NoJoin == TRUE

\* The scope ends when every thread spawned in it has finished.
AllTasksDone ==
    \A c \in Cmds : wait_pc[c] \in {"none", "done"} /\ out_pc[c] \in {"none", "done"}

\* End of the scope, handle.close(), Ok(()).
ScopeJoin ==
    /\ pc = "join"
    /\ AllTasksDone
    /\ pc' = "returned"
    /\ result' = "Ok"
    /\ relay' = "closed"
    /\ read_fds' = [c \in Cmds |-> {}]
    /\ fds' = [c \in Cmds |-> [fds[c] EXCEPT !.read_end = drop(@, "tty")]]
    /\ UNCHANGED <<config, environ, cmd_stdout, is_tty, handles, COLOR_CYCLE, child, transport,
                   emitted, out_pc, acc, cur, wait_pc, console, receipts,
                   errlog, lock, pending, nsig>>

\* ------------------------------------------------------- the children
\* The children are followed while the supervisor is alive and past the
\* launch; what they do before the threads exist stays in the transport.
\* The number of chunks the children in S have written.
RECURSIVE Written(_)
Written(S) ==
    IF S = {} THEN 0
    ELSE LET c == CHOOSE x \in S : TRUE IN Len(emitted[c]) + Written(S \ {c})

LastKind(q) == IF q = <<>> THEN "none" ELSE q[Len(q)].kind

\* The transport of command c has room for one more chunk.
HasRoom(c) == Len(transport[c]) < Capacity

\* The child of command c has one more write to make. An unterminated chunk
\* is the last thing a child writes. A write on a transport with no read
\* end left open fails instead.
MayWrite(c) ==
    /\ pc \in {"scope", "join"}
    /\ Written(Cmds) < MaxChunks
    /\ LastKind(emitted[c]) # "part"
    /\ read_fds[c] # {}

\* The child of command c writes one chunk to its stdout or its stderr:
\* start_command made both the same write end, so either is a write to the
\* one transport. The write completes when the buffer has room.
ChildWrite(c, kind) ==
    /\ child[c].state \in {"running", "blocked"}
    /\ MayWrite(c)
    /\ HasRoom(c)
    /\ LET chunk == [kind |-> kind, seq |-> Len(emitted[c]) + 1]
       IN  /\ transport' = [transport EXCEPT ![c] = Append(@, chunk)]
           /\ emitted' = [emitted EXCEPT ![c] = Append(@, chunk)]
    /\ child' = [child EXCEPT ![c].state = "running"]
    /\ UNCHANGED <<pc, result, config, environ, fds, cmd_stdout, is_tty, handles, COLOR_CYCLE,
                   read_fds, out_pc, acc, cur, wait_pc, console, receipts,
                   errlog, lock, relay, pending, nsig>>

\* The child of command c starts a write while the buffer is full and a
\* read end is open: the write blocks, and the child with it.
ChildBlock(c) ==
    /\ child[c].state = "running"
    /\ MayWrite(c)
    /\ ~HasRoom(c)
    /\ child' = [child EXCEPT ![c].state = "blocked"]
    /\ UNCHANGED <<pc, result, config, environ, fds, cmd_stdout, is_tty, handles, COLOR_CYCLE,
                   transport, read_fds, emitted, out_pc, acc, cur, wait_pc,
                   console, receipts, errlog, lock, relay, pending, nsig>>

\* The child terminates; its copies of the write end are closed.
ChildExit(c, status) ==
    /\ pc \in {"scope", "join"}
    /\ child[c].state = "running"
    /\ child' = [child EXCEPT ![c].state = "exited", ![c].status = status]
    /\ UNCHANGED <<pc, result, config, environ, fds, cmd_stdout, is_tty, handles, COLOR_CYCLE,
                   transport, read_fds, emitted, out_pc, acc, cur, wait_pc, console,
                   receipts, errlog, lock, relay, pending, nsig>>

\* ------------------------------------------------------ the stdout lock
\* Mutant of CanLock: writes go to stdout without the lock being taken.
CanLockAlways(t) == TRUE

\* stdout.lock(), taken by prefix_write and by every println!.
CanLock(t) == lock = 0

\* Mutant of handle_wait: the report is held back until the output of the
\* command has been drained.
handle_wait_AfterDrain(c, ok) ==
    /\ wait_pc[c] = "wait"
    /\ child[c].state = "exited"
    /\ out_pc[c] = "done"
    /\ CanLock(c)
    /\ LET line == IF ok THEN <<"finished", c, child[c].status>>
                         ELSE <<"waitfailed", c, "none">>
       IN  /\ console' = [console EXCEPT ![c] = Append(@, line)]
    /\ child' = [child EXCEPT ![c].state = "reaped"]
    /\ wait_pc' = [wait_pc EXCEPT ![c] = "done"]
    /\ UNCHANGED <<pc, result, config, environ, fds, cmd_stdout, is_tty, handles, COLOR_CYCLE,
                   transport, read_fds, emitted, out_pc, acc, cur, receipts, errlog,
                   lock, relay, pending, nsig>>

\* -------------------------------------------------------- handle_wait
\* h.child.wait() returns once the child has terminated; the outcome is
\* printed with println!.
handle_wait(c, ok) ==
    /\ wait_pc[c] = "wait"
    /\ child[c].state = "exited"
    /\ CanLock(c)
    /\ LET line == IF ok THEN <<"finished", c, child[c].status>>
                         ELSE <<"waitfailed", c, "none">>
       IN  /\ console' = [console EXCEPT ![c] = Append(@, line)]
    /\ child' = [child EXCEPT ![c].state = "reaped"]
    /\ wait_pc' = [wait_pc EXCEPT ![c] = "done"]
    /\ UNCHANGED <<pc, result, config, environ, fds, cmd_stdout, is_tty, handles, COLOR_CYCLE,
                   transport, read_fds, emitted, out_pc, acc, cur, receipts, errlog,
                   lock, relay, pending, nsig>>

\* ------------------------------------------------------ handle_output
\* Every copy of the write end is closed once the child is gone.
WritersClosed(c) == child[c].state \in {"exited", "reaped"}

\* Mutant of TakeIndex: the reader takes the newest chunk first.
TakeLast(q) == Len(q)

\* The position in the transport the reader takes its next chunk from.
TakeIndex(q) == 1

Without(q, i) == [j \in 1..(Len(q) - 1) |-> IF j < i THEN q[j] ELSE q[j + 1]]

\* Mutant of LockAndPrefix: the colour of a prefix is picked anew for every
\* line, from the lines of the command already on stdout.
LockAndPrefixFreshColor(c) ==
    /\ CanLock(c)
    /\ lock' = c
    /\ console' = [console EXCEPT
                      ![c] = Append(@, <<"prefix", c, (Len(@) % NumColors) + 1>>)]
    /\ out_pc' = [out_pc EXCEPT ![c] = "body"]

\* stream.lock() and colored_write of "[name] ": the first half of
\* prefix_write for the line in cur[c].
LockAndPrefix(c) ==
    /\ CanLock(c)
    /\ lock' = c
    /\ console' = [console EXCEPT ![c] = Append(@, <<"prefix", c, handles[c].color>>)]
    /\ out_pc' = [out_pc EXCEPT ![c] = "body"]

\* One step of br.lines(): read_line takes the next chunk of the transport.
\* A terminated valid line is yielded and prefix_write starts on it; an
\* unterminated chunk is kept in read_line's buffer; a line that is not
\* UTF-8 is an Err and ends the loop. Nothing observes a line between its
\* read and the lock being taken, so the two are one step.
OutReadChunk(c) ==
    /\ out_pc[c] = "read"
    /\ transport[c] # <<>>
    /\ LET i == TakeIndex(transport[c])
           chunk == transport[c][i]
       IN  /\ transport' = [transport EXCEPT ![c] = Without(@, i)]
           /\ CASE chunk.kind = "line" ->
                      /\ cur' = [cur EXCEPT ![c] = chunk]
                      /\ LockAndPrefix(c)
                      /\ UNCHANGED <<acc, read_fds>>
                [] chunk.kind = "part" ->
                      /\ acc' = [acc EXCEPT ![c] = chunk]
                      /\ UNCHANGED <<cur, out_pc, console, lock, read_fds>>
                [] chunk.kind = "bad" ->
                      /\ out_pc' = [out_pc EXCEPT ![c] = "done"]
                      /\ acc' = [acc EXCEPT ![c] = NoChunk]
                      /\ read_fds' = [read_fds EXCEPT ![c] = @ \ {"output"}]
                      /\ UNCHANGED <<cur, console, lock>>
    /\ UNCHANGED <<pc, result, config, environ, fds, cmd_stdout, is_tty, handles, COLOR_CYCLE, child,
                   emitted, wait_pc, receipts, errlog, relay, pending, nsig>>

\* The transport is drained and no writer is left. A pipe reads as end of
\* file: read_line returns what it has buffered as a last line, or the
\* iterator ends. A pseudo-terminal master reads as an error: read_line
\* returns Err, the buffered chunk is dropped with the String, break.
OutReadEnd(c) ==
    /\ out_pc[c] = "read"
    /\ transport[c] = <<>>
    /\ WritersClosed(c)
    /\ IF ~handles[c].pty /\ acc[c] # NoChunk
       THEN /\ cur' = [cur EXCEPT ![c] = acc[c]]
            /\ LockAndPrefix(c)
            /\ UNCHANGED read_fds
       ELSE /\ out_pc' = [out_pc EXCEPT ![c] = "done"]
            /\ read_fds' = [read_fds EXCEPT ![c] = @ \ {"output"}]
            /\ UNCHANGED <<cur, console, lock>>
    /\ acc' = [acc EXCEPT ![c] = NoChunk]
    /\ UNCHANGED <<pc, result, config, environ, fds, cmd_stdout, is_tty, handles, COLOR_CYCLE, child,
                   transport, emitted, wait_pc, receipts, errlog, relay,
                   pending, nsig>>

\* prefix_write, second half: writeln! of the line, then the lock guard is
\* dropped and the loop reads on.
write_body(c) ==
    /\ out_pc[c] = "body"
    /\ console' = [console EXCEPT ![c] = Append(@, <<"body", c, cur[c].seq>>)]
    /\ lock' = 0
    /\ cur' = [cur EXCEPT ![c] = NoChunk]
    /\ out_pc' = [out_pc EXCEPT ![c] = "read"]
    /\ UNCHANGED <<pc, result, config, environ, fds, cmd_stdout, is_tty, handles, COLOR_CYCLE, child,
                   transport, read_fds, emitted, acc, wait_pc, receipts, errlog, relay,
                   pending, nsig>>

\* --------------------------------------------------- the signal relay
\* SIGTERM or SIGINT is delivered to the supervisor while go() runs with
\* the handlers registered.
SignalArrives(s) ==
    /\ pc \in {"launch", "scope", "join"}
    /\ nsig < MaxSignals
    /\ nsig' = nsig + 1
    /\ pending' = pending \cup {s}
    /\ UNCHANGED <<pc, result, config, environ, fds, cmd_stdout, is_tty, handles, COLOR_CYCLE, child,
                   transport, read_fds, emitted, out_pc, acc, cur, wait_pc, console,
                   receipts, errlog, lock, relay>>

\* Mutant of RelayPrint: the relay ends the supervisor on receipt.
RelayPrintAndExit(s) ==
    /\ relay = "running"
    /\ s \in pending
    /\ CanLock(0)
    /\ pending' = pending \ {s}
    /\ receipts' = Append(receipts, s)
    /\ pc' = "returned"
    /\ result' = "Ok"
    /\ UNCHANGED <<config, environ, fds, cmd_stdout, is_tty, handles, COLOR_CYCLE, child, transport, read_fds,
                   emitted, out_pc, acc, cur, wait_pc, console, errlog, lock,
                   relay, nsig>>

\* The body of the signal thread's loop: println! of the receipt.
RelayPrint(s) ==
    /\ relay = "running"
    /\ s \in pending
    /\ CanLock(0)
    /\ pending' = pending \ {s}
    /\ receipts' = Append(receipts, s)
    /\ UNCHANGED <<pc, result, config, environ, fds, cmd_stdout, is_tty, handles, COLOR_CYCLE, child,
                   transport, read_fds, emitted, out_pc, acc, cur, wait_pc, console,
                   errlog, lock, relay, nsig>>

Next ==
    \/ GoRegister
    \/ Launch
    \/ SpawnThreads
    \/ ScopeJoin
    \/ \E c \in Cmds, k \in ChunkKinds : ChildWrite(c, k)
    \/ \E c \in Cmds : ChildBlock(c)
    \/ \E c \in Cmds, status \in ExitStatuses : ChildExit(c, status)
    \/ \E c \in Cmds, ok \in BOOLEAN : handle_wait(c, ok)
    \/ \E c \in Cmds : OutReadChunk(c)
    \/ \E c \in Cmds : OutReadEnd(c)
    \/ \E c \in Cmds : write_body(c)
    \/ \E s \in SignalNames : SignalArrives(s)
    \/ \E s \in SignalNames : RelayPrint(s)

Spec == Init /\ [][Next]_vars

\* ------------------------------------------------- runs under scheduling
\* The steps of the supervisor's own threads. The OS schedules every thread
\* that can run; what a child does, and whether it ever exits, is the
\* child's program and nothing the supervisor's scheduling decides.
GoStep == GoRegister \/ Launch \/ SpawnThreads \/ ScopeJoin
WaitStep == \E c \in Cmds, ok \in BOOLEAN : handle_wait(c, ok)
OutputStep ==
    \/ \E c \in Cmds : OutReadChunk(c)
    \/ \E c \in Cmds : OutReadEnd(c)
    \/ \E c \in Cmds : write_body(c)
RelayStep == \E s \in SignalNames : RelayPrint(s)

\* A run of one command in the full form.
InitFull == Init /\ config \in FullConfigs

FairSpec ==
    /\ InitFull
    /\ [][Next]_vars
    /\ WF_vars(GoStep)
    /\ WF_vars(WaitStep)
    /\ WF_vars(OutputStep)
    /\ WF_vars(RelayStep)

\* The steps of the children. A child that exits after finitely many
\* writes keeps taking its steps: it writes when its write can complete and
\* exits when it has written everything.
ChildStep ==
    \/ \E c \in Cmds, k \in ChunkKinds : ChildWrite(c, k)
    \/ \E c \in Cmds : ChildBlock(c)
    \/ \E c \in Cmds, status \in ExitStatuses : ChildExit(c, status)

\* Runs of one command in which the child, too, goes on until it exits.
LiveSpec ==
    /\ InitFull
    /\ [][Next]_vars
    /\ WF_vars(GoStep)
    /\ WF_vars(WaitStep)
    /\ WF_vars(OutputStep)
    /\ WF_vars(RelayStep)
    /\ WF_vars(ChildStep)

\* ------------------------------------------ launches in an environment
\* A run of one command in the full form with an env map, started in any
\* environment.
EnvDescriptor == [argv : Argvs, tty : {"Never"}, env : OverrideMaps]
EnvConfigs == [1..1 -> EnvDescriptor]

EnvInit ==
    /\ pc = "start"
    /\ result = "none"
    /\ is_tty \in BOOLEAN
    /\ config \in EnvConfigs
    /\ environ \in Environs
    /\ handles = [c \in Cmds |-> NoHandle]
    /\ COLOR_CYCLE = 0
    /\ child = [c \in Cmds |-> NoChild]
    /\ transport = [c \in Cmds |-> <<>>]
    /\ read_fds = [c \in Cmds |-> {}]
    /\ cmd_stdout = [c \in Cmds |-> NoPipe]
    /\ fds = [c \in Cmds |-> NoDescriptors]
    /\ emitted = [c \in Cmds |-> <<>>]
    /\ out_pc = [c \in Cmds |-> "none"]
    /\ acc = [c \in Cmds |-> NoChunk]
    /\ cur = [c \in Cmds |-> NoChunk]
    /\ wait_pc = [c \in Cmds |-> "none"]
    /\ console = [c \in Cmds |-> <<>>]
    /\ receipts = <<>>
    /\ errlog = <<>>
    /\ lock = 0
    /\ relay = "none"
    /\ pending = {}
    /\ nsig = 0

\* go() up to the end of the launch.
EnvNext == GoRegister \/ Launch

EnvSpec == EnvInit /\ [][EnvNext]_vars

\* go() up to the end of the launch, for every configuration.
LaunchSpec == Init /\ [][EnvNext]_vars

\* ------------------------------------- go() of main.rs on separate pipes
\* The supervisor of src/src/main.rs for commands that get no
\* pseudo-terminal: start_command gives the child Stdio::piped() for stdout
\* and for stderr. Here transport[c], emitted[c] and read_fds[c] are the
\* stderr pipe of command c, out_pc[c] the thread that reads it, and
\* cmd_stdout[c] the stdout pipe. What the thread prints goes to the
\* supervisor's stderr, errlog.
\* A configuration of one command for which wrap_tty is false.
PipeDescriptor == [argv : Argvs, tty : {"Auto", "Never"}, env : {NoEnv}]
PipeConfigs == [1..1 -> PipeDescriptor]

PipeInit ==
    /\ pc = "start"
    /\ result = "none"
    /\ is_tty \in BOOLEAN
    /\ config \in {cfg \in PipeConfigs : \A c \in DOMAIN cfg : ~wrap_tty(cfg[c].tty)}
    /\ environ = NoEnv
    /\ handles = [c \in Cmds |-> NoHandle]
    /\ COLOR_CYCLE = 0
    /\ child = [c \in Cmds |-> NoChild]
    /\ transport = [c \in Cmds |-> <<>>]
    /\ read_fds = [c \in Cmds |-> {}]
    /\ cmd_stdout = [c \in Cmds |-> NoPipe]
    /\ fds = [c \in Cmds |-> NoDescriptors]
    /\ emitted = [c \in Cmds |-> <<>>]
    /\ out_pc = [c \in Cmds |-> "none"]
    /\ acc = [c \in Cmds |-> NoChunk]
    /\ cur = [c \in Cmds |-> NoChunk]
    /\ wait_pc = [c \in Cmds |-> "none"]
    /\ console = [c \in Cmds |-> <<>>]
    /\ receipts = <<>>
    /\ errlog = <<>>
    /\ lock = 0
    /\ relay = "none"
    /\ pending = {}
    /\ nsig = 0

\* start_command of main.rs for a descriptor without a pseudo-terminal:
\* the Result<Handle>; hash is the hash of the command's name.
main_start_command(d, hash) ==
    IF Len(d.argv) = 0
    THEN [tag |-> "Err", err |-> "empty", pty |-> wrap_tty(d.tty), color |-> 0]
    ELSE IF ~Spawnable(d.argv)
    THEN [tag |-> "Err", err |-> "spawn", pty |-> wrap_tty(d.tty), color |-> 0]
    ELSE [tag |-> "Ok", err |-> "none", pty |-> wrap_tty(d.tty),
          color |-> IF is_tty THEN (hash % NumColors) + 1 ELSE 0]

\* The launch map of main.rs: a spawned child has a stdout pipe and a
\* stderr pipe whose read ends are in h.child.
main_Launch ==
    /\ pc = "launch"
    /\ \E hash \in [Cmds -> 0..(NumColors - 1)] :
           handles' = [c \in Cmds |-> main_start_command(config[c], hash[c])]
    /\ child' = [c \in Cmds |-> IF Spawnable(config[c].argv)
                                THEN [state |-> "running", status |-> "none",
                                      env |-> environ]
                                ELSE child[c]]
    /\ cmd_stdout' = [c \in Cmds |-> IF Spawnable(config[c].argv)
                                     THEN [fd |-> "open", written |-> 0,
                                           refused |-> FALSE]
                                     ELSE NoPipe]
    /\ read_fds' = [c \in Cmds |-> IF Spawnable(config[c].argv)
                                   THEN {"handle"} ELSE {}]
    /\ pc' = "scope"
    /\ UNCHANGED <<result, config, environ, fds, is_tty, COLOR_CYCLE, transport,
                   emitted, out_pc, acc, cur, wait_pc, console, receipts,
                   errlog, lock, relay, pending, nsig>>

\* The signal thread and the loop of the scope, in the else branch of
\* `if let Some(tty_master)`: cmd_stdout and cmd_stderr are taken out of the
\* child, the wait thread and the stderr thread are spawned, cmd_stderr
\* moves into the latter. The thread for cmd_stdout is commented out:
\* cmd_stdout is dropped at the end of the branch, which closes the read
\* end of the stdout pipe.
main_SpawnThreads ==
    /\ pc = "scope"
    /\ relay' = "running"
    /\ wait_pc' = [c \in Cmds |-> IF handles[c].tag = "Ok" THEN "wait" ELSE "none"]
    /\ out_pc' = [c \in Cmds |-> IF handles[c].tag = "Ok" THEN "read" ELSE "none"]
    /\ read_fds' = [c \in Cmds |-> IF handles[c].tag = "Ok"
                                   THEN {"output"} ELSE read_fds[c]]
    /\ cmd_stdout' = [c \in Cmds |-> IF handles[c].tag = "Ok"
                                     THEN [cmd_stdout[c] EXCEPT !.fd = "closed"]
                                     ELSE cmd_stdout[c]]
    /\ errlog' = errlog \o LaunchErrors(1)
    /\ pc' = "join"
    /\ UNCHANGED <<result, config, environ, fds, is_tty, handles, COLOR_CYCLE, child,
                   transport, emitted, acc, cur, console, receipts,
                   lock, pending, nsig>>

\* The number of chunks the children in S have written to their stdout.
RECURSIVE WrittenStdout(_)
WrittenStdout(S) ==
    IF S = {} THEN 0
    ELSE LET c == CHOOSE x \in S : TRUE
         IN  cmd_stdout[c].written + WrittenStdout(S \ {c})

\* The child of command c has one more write to its stdout to make.
MayWriteStdout(c) ==
    /\ pc \in {"scope", "join"}
    /\ child[c].state \in {"running", "blocked_stdout"}
    /\ Written(Cmds) + WrittenStdout(Cmds) < MaxChunks

\* The child writes a line to its stdout while the read end of the pipe is
\* open and the buffer has room.
ChildWriteStdout(c) ==
    /\ MayWriteStdout(c)
    /\ cmd_stdout[c].fd = "open"
    /\ cmd_stdout[c].written < Capacity
    /\ cmd_stdout' = [cmd_stdout EXCEPT ![c].written = @ + 1]
    /\ child' = [child EXCEPT ![c].state = "running"]
    /\ UNCHANGED <<pc, result, config, environ, fds, is_tty, handles, COLOR_CYCLE,
                   transport, read_fds, emitted, out_pc, acc, cur, wait_pc,
                   console, receipts, errlog, lock, relay, pending, nsig>>

\* The child starts a write to its stdout while the read end is open and
\* the buffer is full: the write blocks.
ChildBlockStdout(c) ==
    /\ MayWriteStdout(c)
    /\ child[c].state = "running"
    /\ cmd_stdout[c].fd = "open"
    /\ ~(cmd_stdout[c].written < Capacity)
    /\ child' = [child EXCEPT ![c].state = "blocked_stdout"]
    /\ UNCHANGED <<pc, result, config, environ, fds, is_tty, handles, COLOR_CYCLE,
                   transport, read_fds, cmd_stdout, emitted, out_pc, acc, cur,
                   wait_pc, console, receipts, errlog, lock, relay, pending,
                   nsig>>

\* A write of the child to its stdout, new or blocked, after the read end
\* was closed: SIGPIPE ends the child, or, in a child that ignores it, the
\* write fails with EPIPE and the child goes on.
ChildStdoutRefused(c, killed) ==
    /\ MayWriteStdout(c)
    /\ cmd_stdout[c].fd = "closed"
    /\ cmd_stdout' = [cmd_stdout EXCEPT ![c].refused = TRUE]
    /\ child' = [child EXCEPT
                    ![c].state = IF killed THEN "exited" ELSE "running",
                    ![c].status = IF killed THEN "sigpipe" ELSE @]
    /\ UNCHANGED <<pc, result, config, environ, fds, is_tty, handles, COLOR_CYCLE,
                   transport, read_fds, emitted, out_pc, acc, cur, wait_pc,
                   console, receipts, errlog, lock, relay, pending, nsig>>

\* prefix_write(&mut stderr, ..) of the stderr thread: the line goes to the
\* supervisor's stderr under that stream's lock.
stderr_line(c, chunk) == <<"line", c, chunk.seq>>

\* One step of cmd_stderr.lines().flatten(): a valid line is written with
\* its prefix, an unterminated chunk stays in read_line's buffer, and the
\* Err of a line that is not UTF-8 is flattened away, the loop reads on.
stderr_read(c) ==
    /\ handles[c].tag = "Ok"
    /\ ~handles[c].pty
    /\ cmd_stdout[c].fd # "none"
    /\ out_pc[c] = "read"
    /\ transport[c] # <<>>
    /\ LET i == TakeIndex(transport[c])
           chunk == transport[c][i]
       IN  /\ transport' = [transport EXCEPT ![c] = Without(@, i)]
           /\ errlog' = IF chunk.kind = "line"
                        THEN Append(errlog, stderr_line(c, chunk))
                        ELSE errlog
           /\ acc' = [acc EXCEPT ![c] = IF chunk.kind = "part" THEN chunk
                                        ELSE NoChunk]
    /\ UNCHANGED <<pc, result, config, environ, fds, is_tty, handles, COLOR_CYCLE,
                   child, read_fds, cmd_stdout, emitted, out_pc, cur, wait_pc,
                   console, receipts, lock, relay, pending, nsig>>

\* End of file on the stderr pipe: what read_line has buffered is the last
\* line, the loop and the thread end, cmd_stderr is dropped.
stderr_end(c) ==
    /\ handles[c].tag = "Ok"
    /\ cmd_stdout[c].fd # "none"
    /\ out_pc[c] = "read"
    /\ transport[c] = <<>>
    /\ WritersClosed(c)
    /\ errlog' = IF acc[c] # NoChunk
                 THEN Append(errlog, stderr_line(c, acc[c]))
                 ELSE errlog
    /\ acc' = [acc EXCEPT ![c] = NoChunk]
    /\ out_pc' = [out_pc EXCEPT ![c] = "done"]
    /\ read_fds' = [read_fds EXCEPT ![c] = @ \ {"output"}]
    /\ UNCHANGED <<pc, result, config, environ, fds, is_tty, handles, COLOR_CYCLE,
                   child, transport, cmd_stdout, emitted, cur, wait_pc,
                   console, receipts, lock, relay, pending, nsig>>

PipeNext ==
    \/ GoRegister
    \/ main_Launch
    \/ main_SpawnThreads
    \/ ScopeJoin
    \/ \E c \in Cmds, k \in ChunkKinds : ChildWrite(c, k)
    \/ \E c \in Cmds : ChildBlock(c)
    \/ \E c \in Cmds : ChildWriteStdout(c)
    \/ \E c \in Cmds : ChildBlockStdout(c)
    \/ \E c \in Cmds, killed \in BOOLEAN : ChildStdoutRefused(c, killed)
    \/ \E c \in Cmds, status \in ExitStatuses : ChildExit(c, status)
    \/ \E c \in Cmds, ok \in BOOLEAN : handle_wait(c, ok)
    \/ \E c \in Cmds : stderr_read(c)
    \/ \E c \in Cmds : stderr_end(c)
    \/ \E s \in SignalNames : SignalArrives(s)
    \/ \E s \in SignalNames : RelayPrint(s)

PipeSpec == PipeInit /\ [][PipeNext]_vars

\* ============================================================ claims
IsBody(e) == e[1] = "body"
IsReport(e) == e[1] \in {"finished", "waitfailed"}

\* The sequence numbers of the lines stdout shows for command c, in order.
Bodies(c) ==
    LET b == SelectSeq(console[c], IsBody) IN [i \in 1..Len(b) |-> b[i][3]]

\* The exit reports stdout shows for command c.
Reports(c) == SelectSeq(console[c], IsReport)

Launched(c) == handles[c].tag = "Ok"
TasksRunning(c) == wait_pc[c] = "wait" \/ out_pc[c] \in {"read", "body"}
RunOver == pc \in {"returned", "panicked"}
LaunchOver == pc \in {"scope", "join", "panicked"} \/ (pc = "returned" /\ result = "Ok")

\* C1: in every state where go() has returned, every successfully launched
\* command has had its exit collected by its wait task and its output task
\* has left its read loop; no per-process task is still running.
C1_ReturnsAfterAllTasks ==
    pc = "returned" =>
        \A c \in Cmds :
            /\ ~TasksRunning(c)
            /\ Launched(c) =>
                   wait_pc[c] = "done" /\ out_pc[c] = "done" /\ child[c].state = "reaped"

\* C1 witness: go() has returned from a run in which two commands were
\* launched, one of which wrote output.
C1_Witness ==
    /\ pc = "returned"
    /\ \E c, d \in Cmds : c # d /\ Launched(c) /\ Launched(d) /\ Bodies(c) # <<>>

\* C2: at most one exit report per command at any time, none for a command
\* whose launch failed, and once the run is over exactly one for every
\* successfully launched command, carrying the status the OS wait returned.
C2_ExactlyOneReport ==
    \A c \in Cmds :
        /\ Len(Reports(c)) <= 1
        /\ ~Launched(c) => Reports(c) = <<>>
        /\ RunOver /\ Launched(c) =>
               /\ Len(Reports(c)) = 1
               /\ Reports(c)[1][1] = "finished" => Reports(c)[1][3] = child[c].status

\* C3: once the run is over, every chunk a launched child wrote has been
\* written to stdout as a prefixed line exactly once.
C3_EveryChunkDelivered ==
    pc = "returned" =>
        \A c \in Cmds :
            Launched(c) =>
                \A i \in 1..Len(emitted[c]) :
                    Cardinality({j \in 1..Len(Bodies(c)) : Bodies(c)[j] = i}) = 1

\* C4: the lines stdout shows for one command are in the order the child
\* wrote them.
C4_FifoPerProcess ==
    \A c \in Cmds :
        \A i, j \in 1..Len(Bodies(c)) : i < j => Bodies(c)[i] < Bodies(c)[j]

\* C4 witness: two lines of one command are on stdout, with the exit report
\* of another command and a signal receipt written in the same run.
C4_Witness ==
    \E c, d \in Cmds :
        /\ c # d
        /\ Len(Bodies(c)) = 2
        /\ Reports(d) # <<>>
        /\ receipts # <<>>

\* C5: when handle_output has returned and the child's output was valid
\* UTF-8 ending in an unterminated chunk, that chunk is on stdout as a line,
\* on a pipe and on a pseudo-terminal alike.
C5_TrailingChunkFlushed ==
    \A c \in Cmds :
        /\ out_pc[c] = "done"
        /\ LastKind(emitted[c]) = "part"
        /\ \A i \in 1..Len(emitted[c]) : emitted[c][i].kind # "bad"
        => \E j \in 1..Len(Bodies(c)) : Bodies(c)[j] = Len(emitted[c])

\* C6: while an output task is between its prefix and the newline of its
\* line body, the only thing written to stdout is that body: no other
\* output task, wait task or the relay writes in between.
C6_LineIsCriticalSection ==
    [][\A c \in Cmds :
          out_pc[c] = "body" /\ <<console, receipts>>' # <<console, receipts>> =>
              /\ console' = [console EXCEPT
                                ![c] = Append(@, <<"body", c, cur[c].seq>>)]
              /\ receipts' = receipts]_vars

\* C6 witness: one output task has written its prefix and holds the lock
\* while the output task of another command has a line to write.
C6_Witness ==
    \E c, d \in Cmds :
        /\ c # d
        /\ out_pc[c] = "body"
        /\ out_pc[d] = "read"
        /\ transport[d] # <<>>

\* C7: once the launch is over, a descriptor with empty argv has the
\* empty-command error and no child, and if there is one, every descriptor
\* of the run whose argv names an existing executable has an Ok Handle.
C7_EmptyArgvSiblingsLaunch ==
    LaunchOver =>
        /\ \A c \in Cmds :
               Len(config[c].argv) = 0 /\ handles[c].tag # "none" =>
                   /\ handles[c].tag = "Err"
                   /\ handles[c].err = "empty"
                   /\ child[c].state = "none"
        /\ (\E c \in Cmds : Len(config[c].argv) = 0) =>
               \A d \in Cmds : Spawnable(config[d].argv) => Launched(d)

\* C8: a run in which signal registration succeeded ends with go()
\* returning Ok(()), with the wait task and the output task of every
\* launched command run to their end.
C8_AlwaysReturnsOk ==
    RunOver /\ ~(pc = "returned" /\ result = "Err") =>
        /\ result = "Ok"
        /\ \A c \in Cmds : Launched(c) => wait_pc[c] = "done" /\ out_pc[c] = "done"

\* C9: when go() has returned the error of the signal registration,
\* nothing was launched: no start_command result, no child, no thread, no
\* colour taken.
C9_NoLaunchOnSignalError ==
    result = "Err" =>
        /\ pc = "returned"
        /\ relay = "none"
        /\ COLOR_CYCLE = 0
        /\ \A c \in Cmds :
               /\ handles[c] = NoHandle
               /\ child[c] = NoChild
               /\ wait_pc[c] = "none"
               /\ out_pc[c] = "none"

\* C9 witness: the registration failed in a run configured with a command
\* that could have been spawned.
C9_Witness ==
    /\ result = "Err"
    /\ \E c \in Cmds : Spawnable(config[c].argv)

C11_InterruptEndsAlwaysChild ==
    (/\ "SIGINT" \in pending
     /\ config[1].tty = "Always"
     /\ child[1].state = "running")
    ~> (Reports(1) # <<>>)

\* C12: every start_command call that returned allocated a pseudo-terminal
\* exactly when the tty mode is Always, or Auto with the supervisor's stdout
\* a terminal; in every other case (Never, Auto on a non-terminal) the one
\* transport of the command is a pipe.
C12_PtyExactlyWhenWrapped ==
    \A c \in Cmds :
        handles[c].tag # "none" =>
            (handles[c].pty <=>
                \/ config[c].tty = "Always"
                \/ config[c].tty = "Auto" /\ is_tty)

\* C12 witness: on a terminal, a command with tty mode Never was launched
\* and its child runs on a pipe.
C12_Witness ==
    \E c \in Cmds :
        /\ Launched(c)
        /\ is_tty
        /\ config[c].tty = "Never"
        /\ ~handles[c].pty
        /\ child[c].state = "running"

IsPrefix(e) == e[1] = "prefix"

\* The colours of the prefixes stdout shows for command c, in order.
PrefixColors(c) ==
    LET p == SelectSeq(console[c], IsPrefix) IN [i \in 1..Len(p) |-> p[i][3]]

\* C13: every Handle has a colour exactly when the supervisor's stdout is a
\* terminal, whatever the tty mode of its command and whether or not its
\* transport is a pseudo-terminal.
C13_ColorIffSupervisorTty ==
    \A c \in Cmds : Launched(c) => (handles[c].color # 0 <=> is_tty)

\* C13 witness: with a non-terminal stdout a command with tty mode Always
\* was launched: its child runs on a pseudo-terminal and its Handle has no
\* colour.
C13_Witness ==
    \E c \in Cmds :
        /\ ~is_tty
        /\ config[c].tty = "Always"
        /\ Launched(c)
        /\ handles[c].pty
        /\ handles[c].color = 0
        /\ child[c].state = "running"

\* The launched commands before c in launch order.
LaunchedBefore(c) == {d \in Cmds : d < c /\ Launched(d)}

\* C14: with the supervisor's stdout a terminal the launch never fails in
\* pick_color, and the k-th launched command (k from 0) has colour
\* k mod 5 of the palette, for any number of commands.
C14_ColorsCycle ==
    is_tty =>
        /\ pc # "panicked"
        /\ \A c \in Cmds :
               Launched(c) =>
                   handles[c].color = (Cardinality(LaunchedBefore(c)) % NumColors) + 1

\* C15: at every moment every prefix stdout shows for a command, however
\* long ago it was written, has the colour the command's Handle has now: the
\* colour given at launch never changed, and all prefixed lines of one
\* command carry the same colour.
C15_ColorFixedAtLaunch ==
    \A c \in Cmds :
        /\ \A i \in 1..Len(PrefixColors(c)) : PrefixColors(c)[i] = handles[c].color
        /\ PrefixColors(c) # <<>> => Launched(c)

\* C15 witness: two prefixes of one coloured command are on stdout in a
\* run where another command was launched after it and has been reported.
C15_Witness ==
    \E c, d \in Cmds :
        /\ c < d
        /\ handles[c].color # 0
        /\ Len(PrefixColors(c)) = 2
        /\ Launched(d)
        /\ handles[d].color # handles[c].color
        /\ Reports(d) # <<>>

\* The names cmd_config.env maps to no value, and to a value.
NoneKeys(env) == {k \in DOMAIN env : env[k] = <<>>}
SomeKeys(env) == {k \in DOMAIN env : env[k] # <<>>}

\* C16: the environment of every child start_command spawned is the
\* inherited environment with each name the env map maps to no value
\* removed, each name it maps to a value set to that value, and every
\* other name as inherited.
C16_ChildEnvIsOverriddenInherited ==
    \A c \in Cmds :
        child[c].state # "none" =>
            LET env == config[c].env IN
            /\ DOMAIN child[c].env = (DOMAIN environ \ NoneKeys(env)) \cup SomeKeys(env)
            /\ \A k \in DOMAIN child[c].env :
                   child[c].env[k] = IF k \in SomeKeys(env) THEN env[k][1] ELSE environ[k]

\* C16 witness: a child runs after an inherited variable was removed, an
\* inherited variable was overridden with another value, and a third was
\* left as inherited.
C16_Witness ==
    \E c \in Cmds :
        /\ child[c].state = "running"
        /\ \E k \in DOMAIN environ : k \in NoneKeys(config[c].env)
        /\ \E k \in DOMAIN environ :
               k \in SomeKeys(config[c].env) /\ config[c].env[k][1] # environ[k]
        /\ \E k \in DOMAIN environ : k \notin DOMAIN config[c].env

\* C17: in every run in which the child keeps going until it exits, whatever
\* it writes, go() eventually returns (or ends in the launch): no write of
\* the child stays blocked for ever.
C17_NoDeadlockWithChild == <>RunOver

\* C18: once the output task of a command has exited, on end of stream or
\* on an error, no descriptor of the read end of its transport is open in
\* the supervisor.
C18_ReadEndClosedWithOutputTask ==
    \A c \in Cmds : out_pc[c] = "done" => read_fds[c] = {}

\* The launch has ended and go() has gone past the loop of the scope, or
\* has ended without reaching it.
PastSpawn == pc \in {"join", "panicked"} \/ (pc = "returned" /\ result = "Ok")

\* C19: a command whose launch failed never has a wait task or an output
\* task, and once go() is past the launch and the loop of its scope every
\* successfully launched command has been given its wait task and its
\* output task, the one reader of its transport.
C19_OneTaskPairPerLaunched ==
    \A c \in Cmds :
        /\ ~Launched(c) => wait_pc[c] = "none" /\ out_pc[c] = "none"
        /\ PastSpawn /\ Launched(c) =>
               /\ wait_pc[c] # "none"
               /\ out_pc[c] # "none"
               /\ (out_pc[c] # "done" <=> "output" \in read_fds[c])

\* The exit report of command c is on stdout with an output line of c after
\* it.
ReportBeforeLastLine(c) ==
    \E i, j \in 1..Len(console[c]) :
        i < j /\ IsReport(console[c][i]) /\ IsBody(console[c][j])

\* The output of command c is over and its exit report is on stdout after
\* the last of its output lines.
ReportAfterLastLine(c) ==
    /\ out_pc[c] = "done"
    /\ Bodies(c) # <<>>
    /\ console[c] # <<>>
    /\ IsReport(console[c][Len(console[c])])

\* C20: neither task of a command waits for the other. The wait task can
\* print the exit report as soon as the child has exited and stdout is free,
\* wherever the output task is, and the output task can finish the line it
\* is writing whether or not the report has been printed.
C20_WaitAndOutputUnordered ==
    \A c \in Cmds :
        /\ wait_pc[c] = "wait" /\ child[c].state = "exited" /\ lock = 0
               => ENABLED handle_wait(c, TRUE)
        /\ out_pc[c] = "body" => ENABLED write_body(c)

\* C20 witness: in one run the exit report of one command was printed
\* before its last output line and that of another after its last output
\* line.
C20_Witness ==
    \E c, d \in Cmds :
        /\ c # d
        /\ ReportBeforeLastLine(c)
        /\ ReportAfterLastLine(d)

\* The stderr chunks of command c the supervisor has printed, in order.
StderrShown(c) ==
    LET IsLineOf(e) == e[1] = "line" /\ e[2] = c
        p == SelectSeq(errlog, IsLineOf)
    IN  [i \in 1..Len(p) |-> p[i][3]]

\* C21: on separate pipes, once go() has returned, every line a launched
\* child wrote to its stderr has been printed with its prefix exactly once,
\* every line it wrote to its stdout has been printed as well, and no write
\* to its stdout was refused for want of a reader.
C21_BothStreamsCaptured ==
    pc = "returned" =>
        \A c \in Cmds :
            Launched(c) =>
                /\ \A i \in 1..Len(emitted[c]) :
                       Cardinality({j \in 1..Len(StderrShown(c)) :
                                       StderrShown(c)[j] = i}) = 1
                /\ Len(Bodies(c)) = cmd_stdout[c].written
                /\ ~cmd_stdout[c].refused

\* The descriptors start_command has allocated so far.
Allocated ==
    {f \in UNION {{fds[c].read_end, fds[c].write_end} : c \in Cmds} :
        f.wrapped > 0}

\* C22: every descriptor start_command allocated has had exactly one owning
\* object, was never closed more than once, and has been closed once no
\* object owns it any more; on the success path as on the empty-argv and
\* spawn-failure paths.
C22_OneOwnerOneClose ==
    \A f \in Allocated :
        /\ f.wrapped = 1
        /\ f.closes <= 1
        /\ (f.owners = {} => f.closes = 1)

====
